---------------------------- MODULE Spec2Model ----------------------------
(***************************************************************************)
(* Model of src/my_reference/codes/rust_correct_owner.rs: TaskManager, a   *)
(* Vec<Task> plus a u32 id counter, with the operations new, create, get,  *)
(* list, mark_done and delete.                                             *)
(*                                                                         *)
(* Integer width.  next_id and Task::id are u32.  TLC's integers stop at   *)
(* 2^31 - 1 and a run cannot take 2^32 steps, so the id type is modelled   *)
(* as the unsigned integers below IdModulus (2^32 in the source): every    *)
(* value is in 0 .. U32Max, and `self.next_id += 1` is computed as rustc   *)
(* compiles it, either with overflow checks (a panic at U32Max, the dev    *)
(* profile) or without them (wrapping modulo IdModulus, the release        *)
(* profile).  Which of the two a build does is fixed when it is built.     *)
(***************************************************************************)
EXTENDS Integers, Sequences, FiniteSets

\* Number of values of the modelled id type (2^32 for the source's u32).
IdModulus == 5

\* Cap on Vec<Task>'s length, so that the state space is finite.
MaxTasks == 3

\* The largest value of the id type (u32::MAX), and the type's values.
U32Max == IdModulus - 1
U32 == 0 .. U32Max

\* Cap on the number of create calls of one run: enough to pass the end of
\* the id range and issue ids a second time.
MaxCreates == IdModulus + 1

\* The titles callers pass (String): the empty title and another.
Titles == {"", "X"}

\* The titles passed in the concrete scenario of the specification's section 8.
ScenarioTitles == {"Buy milk", "Walk dog", "Read book"}

\* struct Task { id, title, done }
Task == [id : U32, title : Titles \cup ScenarioTitles, done : BOOLEAN]

\* Option<T>: None, or Some(x).
None == << >>
Some(x) == << x >>

VARIABLES
    tasks,            \* TaskManager.tasks : Vec<Task>
    next_id,          \* TaskManager.next_id : u32
    overflow_checks,  \* whether the build checks `+=` for overflow
    panicked,         \* the thread has panicked (the program is over)
    last,             \* the last call: its name, arguments and result
    ncreate,          \* history: number of create calls made so far
    issued,           \* history: the ids create has returned
    removed,          \* history: the ids of the tasks delete has removed
    ndelete,          \* history: number of delete calls that returned a task
    scenario          \* history: how many calls of ScenarioCalls the run has
                      \* made so far, if it consists of exactly those calls

vars == << tasks, next_id, overflow_checks, panicked, last, ncreate, issued,
           removed, ndelete, scenario >>

\* A call record.  Fields that a call does not use keep these defaults.
\*   op       the method's name
\*   id       the id argument (get, mark_done, delete)
\*   title    the title argument (create)
\*   returned FALSE iff the call panicked instead of returning
\*   rid      create's return value
\*   ok       mark_done's return value
\*   opt      get's / delete's return value, an Option<Task>
\*   view     list's return value, the slice
NoCall == [op |-> "new", id |-> 0, title |-> "", returned |-> TRUE,
           rid |-> 0, ok |-> FALSE, opt |-> None, view |-> << >>]

\* Whether two call records are the same call: same method, same arguments.
SameCall(c, d) == c.op = d.op /\ c.id = d.id /\ c.title = d.title

\* The calls of the concrete scenario of the specification's section 8, in
\* order.
ScenarioCalls ==
    << [NoCall EXCEPT !.op = "create", !.title = "Buy milk"],
       [NoCall EXCEPT !.op = "create", !.title = "Walk dog"],
       [NoCall EXCEPT !.op = "mark_done", !.id = 1],
       [NoCall EXCEPT !.op = "delete", !.id = 2],
       [NoCall EXCEPT !.op = "list"],
       [NoCall EXCEPT !.op = "create", !.title = "Read book"] >>

\* Cap on the number of create calls of a run of ScenarioSpec.
MaxScenarioCreates == 3

\* The value of scenario once the run is no longer a prefix of ScenarioCalls.
Diverged == Len(ScenarioCalls) + 1

\* scenario after the call c.
Advance(s, c) ==
    IF s < Len(ScenarioCalls) /\ SameCall(c, ScenarioCalls[s + 1])
    THEN s + 1
    ELSE Diverged

----------------------------------------------------------------------------
\* The pure parts of the methods.

\* self.tasks.iter().position(|t| t.id == id): the first index (from 1 here)
\* whose task has that id.
Position(ts, id) ==
    IF \E i \in 1 .. Len(ts) : ts[i].id = id
    THEN Some(CHOOSE i \in 1 .. Len(ts) :
                  /\ ts[i].id = id
                  /\ \A j \in 1 .. i - 1 : ts[j].id # id)
    ELSE None

\* self.tasks.iter().find(|t| t.id == id): the first task with that id.
Find(ts, id) ==
    IF \E i \in 1 .. Len(ts) : ts[i].id = id
    THEN Some(ts[CHOOSE i \in 1 .. Len(ts) :
                  /\ ts[i].id = id
                  /\ \A j \in 1 .. i - 1 : ts[j].id # id])
    ELSE None

\* Vec::remove(pos): the vector without its pos-th element, the rest shifted
\* left in order.
Remove(ts, pos) == SubSeq(ts, 1, pos - 1) \o SubSeq(ts, pos + 1, Len(ts))

\* create without `self.next_id += 1`.
WrappingIncForgotten(n) == n

\* `self.next_id += 1` in a build without overflow checks.
WrappingInc(n) == (n + 1) % IdModulus

\* Whether `self.next_id += 1` panics: only with overflow checks, at u32::MAX.
IncPanics(n, checks) == checks /\ n = U32Max

\* create: the task pushed.
NewTask(id, title) == [id |-> id, title |-> title, done |-> FALSE]

\* create: the vector after the push.
CreateTasks(ts, id, title) == Append(ts, NewTask(id, title))

\* mark_done with `task.done = !task.done` for `task.done = true`.
MarkDoneTasksToggle(ts, id) ==
    IF Find(ts, id) = None
    THEN ts
    ELSE [ts EXCEPT ![Position(ts, id)[1]].done = ~@]

\* mark_done setting `done = true` on every task, not on the one found.
MarkDoneTasksAll(ts, id) ==
    IF Find(ts, id) = None
    THEN ts
    ELSE [i \in 1 .. Len(ts) |-> [ts[i] EXCEPT !.done = TRUE]]

\* mark_done: the vector afterwards.
MarkDoneTasks(ts, id) ==
    IF Find(ts, id) = None
    THEN ts
    ELSE [ts EXCEPT ![Position(ts, id)[1]].done = TRUE]

\* mark_done with `None => true` for `None => false`.
MarkDoneResultAlways(ts, id) == TRUE

\* mark_done: the value returned.
MarkDoneResult(ts, id) == Find(ts, id) # None

\* delete: the vector afterwards.
DeleteTasks(ts, id) ==
    IF Position(ts, id) = None THEN ts ELSE Remove(ts, Position(ts, id)[1])

\* delete: the value returned.
DeleteResult(ts, id) ==
    IF Position(ts, id) = None THEN None ELSE Some(ts[Position(ts, id)[1]])

----------------------------------------------------------------------------
\* The operations.

\* TaskManager::new(), in either build.
Init ==
    /\ tasks = << >>
    /\ next_id = 1
    /\ overflow_checks \in BOOLEAN
    /\ panicked = FALSE
    /\ last = NoCall
    /\ ncreate = 0
    /\ issued = {}
    /\ removed = {}
    /\ ndelete = 0
    /\ scenario = 0

\* create(title)
create(title) ==
    /\ ~panicked
    /\ ncreate < MaxCreates
    /\ Len(tasks) < MaxTasks
    /\ ncreate' = ncreate + 1
    /\ IF IncPanics(next_id, overflow_checks)
       THEN /\ panicked' = TRUE
            /\ last' = [NoCall EXCEPT !.op = "create", !.title = title,
                                      !.returned = FALSE]
            /\ UNCHANGED << tasks, next_id, issued >>
       ELSE /\ next_id' = WrappingInc(next_id)
            /\ tasks' = CreateTasks(tasks, next_id, title)
            /\ last' = [NoCall EXCEPT !.op = "create", !.title = title,
                                      !.rid = next_id]
            /\ issued' = issued \cup {next_id}
            /\ UNCHANGED panicked
    /\ scenario' = Advance(scenario, last')
    /\ UNCHANGED << overflow_checks, removed, ndelete >>

\* get(id)
get(id) ==
    /\ ~panicked
    /\ last' = [NoCall EXCEPT !.op = "get", !.id = id, !.opt = Find(tasks, id)]
    /\ scenario' = Advance(scenario, last')
    /\ UNCHANGED << tasks, next_id, overflow_checks, panicked, ncreate, issued,
                    removed, ndelete >>

\* list()
list ==
    /\ ~panicked
    /\ last' = [NoCall EXCEPT !.op = "list", !.view = tasks]
    /\ scenario' = Advance(scenario, last')
    /\ UNCHANGED << tasks, next_id, overflow_checks, panicked, ncreate, issued,
                    removed, ndelete >>

\* mark_done(id)
mark_done(id) ==
    /\ ~panicked
    /\ tasks' = MarkDoneTasks(tasks, id)
    /\ last' = [NoCall EXCEPT !.op = "mark_done", !.id = id,
                              !.ok = MarkDoneResult(tasks, id)]
    /\ scenario' = Advance(scenario, last')
    /\ UNCHANGED << next_id, overflow_checks, panicked, ncreate, issued, removed,
                    ndelete >>

\* delete(id)
delete(id) ==
    /\ ~panicked
    /\ tasks' = DeleteTasks(tasks, id)
    /\ last' = [NoCall EXCEPT !.op = "delete", !.id = id,
                              !.opt = DeleteResult(tasks, id)]
    /\ removed' = IF DeleteResult(tasks, id) = None
                  THEN removed
                  ELSE removed \cup {id}
    /\ ndelete' = IF DeleteResult(tasks, id) = None THEN ndelete ELSE ndelete + 1
    /\ scenario' = Advance(scenario, last')
    /\ UNCHANGED << next_id, overflow_checks, panicked, ncreate, issued >>

Next ==
    \/ \E title \in Titles : create(title)
    \/ \E id \in U32 : get(id)
    \/ list
    \/ \E id \in U32 : mark_done(id)
    \/ \E id \in U32 : delete(id)

Spec == Init /\ [][Next]_vars

\* The same operations, called with the scenario's titles in runs of at most
\* MaxScenarioCreates creates.
ScenarioNext ==
    \/ \E title \in ScenarioTitles :
          ncreate < MaxScenarioCreates /\ create(title)
    \/ \E id \in U32 : get(id)
    \/ list
    \/ \E id \in U32 : mark_done(id)
    \/ \E id \in U32 : delete(id)

ScenarioSpec == Init /\ [][ScenarioNext]_vars

----------------------------------------------------------------------------
\* Vocabulary of the claims, stated without the operators above.

\* A task with id k is present in ts.
HasId(ts, k) == \E i \in 1 .. Len(ts) : ts[i].id = k

\* ts with its p-th entry left out, the others in their order.
WithoutIndex(ts, p) ==
    [i \in 1 .. Len(ts) - 1 |-> IF i < p THEN ts[i] ELSE ts[i + 1]]

----------------------------------------------------------------------------
\* C1: the n-th call to create returns exactly n, whatever calls are
\* interleaved.  Stated of every create call that returns: its return value
\* is the number of create calls made so far.
C1_NthCreateReturnsN ==
    (last.op = "create" /\ last.returned) => last.rid = ncreate

\* C2: no two entries of tasks have the same id.
C2_IdsPairwiseDistinct ==
    \A i, j \in 1 .. Len(tasks) : i # j => tasks[i].id # tasks[j].id

\* C3: next_id is strictly greater than every id create has ever returned.
C3_NextIdAboveIssued == \A k \in issued : next_id > k

\* C4: once delete(k) has removed the task with id k no later create returns
\* k, and no delete call changes next_id.
C4_DeletedIdNeverReissued ==
    [][ /\ (last'.op = "create" /\ last'.returned) => last'.rid \notin removed
        /\ last'.op = "delete" => next_id' = next_id ]_vars

\* C5: every operation completes normally: no call panics, create included
\* when next_id is the largest value of its type.
C5_NoOperationPanics == ~panicked /\ last.returned

\* C6: create(X) returns the old next_id, appends exactly the task
\* {id: old next_id, title: X, done: false} and nothing else, increases
\* next_id by exactly 1, and get of the returned id then yields that task.
C6_CreateAppends ==
    [][ last'.op = "create" =>
          LET t == [id |-> next_id, title |-> last'.title, done |-> FALSE]
          IN  /\ last'.returned
              /\ last'.rid = next_id
              /\ tasks' = tasks \o << t >>
              /\ next_id' = next_id + 1
              /\ Find(tasks', last'.rid) = << t >> ]_vars

\* C7: mark_done(k) with k present returns true and get(k) then shows
\* done = true; a second mark_done(k) returns true again and leaves the
\* store as the first call left it.
C7_MarkDoneIdempotent ==
    [][ /\ (last'.op = "mark_done" /\ HasId(tasks, last'.id)) =>
              /\ last'.ok
              /\ Find(tasks', last'.id) # None
              /\ Find(tasks', last'.id)[1].done
              /\ MarkDoneResult(tasks', last'.id)
              /\ MarkDoneTasks(tasks', last'.id) = tasks'
        /\ (last.op = "mark_done" /\ last.ok
              /\ last'.op = "mark_done" /\ last'.id = last.id) =>
              /\ last'.ok
              /\ tasks' = tasks
              /\ next_id' = next_id ]_vars

\* C7's case: mark_done has just succeeded on one of two tasks, the other
\* still pending.
C7_Witness ==
    /\ last.op = "mark_done" /\ last.ok
    /\ \E i, j \in 1 .. Len(tasks) :
          /\ tasks[i].id = last.id /\ tasks[i].done
          /\ tasks[j].id # last.id /\ ~tasks[j].done

\* C8: mark_done(k) with no task k present returns false and changes
\* neither tasks nor next_id.
C8_MarkDoneMissing ==
    [][ (last'.op = "mark_done" /\ ~HasId(tasks, last'.id)) =>
          /\ ~last'.ok
          /\ tasks' = tasks
          /\ next_id' = next_id ]_vars

\* C8's case: mark_done has just failed on an id that was deleted, in a store
\* that still holds a pending task.
C8_Witness ==
    /\ last.op = "mark_done" /\ ~last.ok
    /\ last.id \in removed /\ ~HasId(tasks, last.id)
    /\ \E i \in 1 .. Len(tasks) : ~tasks[i].done

\* C9: delete(k) with k present returns the task with id k as it was,
\* afterwards no task with id k is present (get(k) is absent), and tasks is
\* the previous sequence with exactly that entry left out.
C9_DeleteRemovesTask ==
    [][ (last'.op = "delete" /\ HasId(tasks, last'.id)) =>
          /\ \E p \in 1 .. Len(tasks) :
                /\ tasks[p].id = last'.id
                /\ last'.opt = << tasks[p] >>
                /\ tasks' = WithoutIndex(tasks, p)
          /\ Find(tasks', last'.id) = None
          /\ ~HasId(tasks', last'.id) ]_vars

\* C10: delete(k) with no task k present returns None and changes neither
\* tasks nor next_id; in particular a delete(k) right after a successful
\* delete(k) returns None and changes nothing.
C10_DeleteMissing ==
    [][ /\ (last'.op = "delete" /\ ~HasId(tasks, last'.id)) =>
              /\ last'.opt = None
              /\ tasks' = tasks
              /\ next_id' = next_id
        /\ (last.op = "delete" /\ last.opt # None
              /\ last'.op = "delete" /\ last'.id = last.id) =>
              /\ last'.opt = None
              /\ tasks' = tasks
              /\ next_id' = next_id ]_vars

\* C11: the done flag is monotonic: once the task with id k has done = true
\* it has done = true in every later state in which a task with id k is
\* present.  Stated of every step, in terms of what get(k) shows: if get(k)
\* shows done = true before a step and a task with id k is present after it,
\* get(k) shows done = true after it.
C11_DoneMonotonic ==
    [][ \A k \in U32 :
          (/\ Find(tasks, k) # None
           /\ Find(tasks, k)[1].done
           /\ HasId(tasks', k)) => Find(tasks', k)[1].done ]_vars

\* C12: the title associated with an id never changes.  Stated of every
\* step, in terms of what get(k) shows: if a task with id k is present before
\* and after a step, get(k) shows the same id and title after it as before.
C12_TitleImmutable ==
    [][ \A k \in U32 :
          (HasId(tasks, k) /\ HasId(tasks', k)) =>
              /\ Find(tasks', k)[1].id = k
              /\ Find(tasks', k)[1].title = Find(tasks, k)[1].title ]_vars

\* What the specification's section 8 says each call of the scenario returns.
ScenarioResults ==
    << [ScenarioCalls[1] EXCEPT !.rid = 1],
       [ScenarioCalls[2] EXCEPT !.rid = 2],
       [ScenarioCalls[3] EXCEPT !.ok = TRUE],
       [ScenarioCalls[4] EXCEPT
           !.opt = << [id |-> 2, title |-> "Walk dog", done |-> FALSE] >>],
       [ScenarioCalls[5] EXCEPT
           !.view = << [id |-> 1, title |-> "Buy milk", done |-> TRUE] >>],
       [ScenarioCalls[6] EXCEPT !.rid = 3] >>

\* C13: from an empty store, create("Buy milk"), create("Walk dog"),
\* mark_done(1), delete(2), list(), create("Read book") return, in order,
\* 1, 2, true, the task {2, "Walk dog", false}, the list
\* [{1, "Buy milk", true}], and 3: after the i-th call of the scenario the
\* call has returned the i-th result.
C13_Scenario ==
    scenario \in 1 .. Len(ScenarioCalls) => last = ScenarioResults[scenario]

\* C13's case: the run is the whole scenario, its last create just returned.
C13_Witness ==
    /\ scenario = Len(ScenarioCalls)
    /\ last.op = "create" /\ last.title = "Read book"
    /\ Len(tasks) = 2

\* C14: get and list change neither tasks nor next_id; get(id) returns the
\* unique task with that id when one is present and None otherwise; list
\* returns the tasks present, in their order.
C14_ReadOnly ==
    [][ /\ last'.op = "get" =>
              /\ tasks' = tasks
              /\ next_id' = next_id
              /\ IF HasId(tasks, last'.id)
                 THEN \E p \in 1 .. Len(tasks) :
                        /\ tasks[p].id = last'.id
                        /\ last'.opt = << tasks[p] >>
                        /\ \A q \in 1 .. Len(tasks) :
                              q # p => tasks[q].id # last'.id
                 ELSE last'.opt = None
        /\ last'.op = "list" =>
              /\ tasks' = tasks
              /\ next_id' = next_id
              /\ last'.view = tasks ]_vars

\* C15: a successful mark_done(k) changes only done flags of tasks with id
\* k: next_id, the length of tasks, every task's position, id and title, and
\* the done flag of every task with another id are unchanged.
C15_MarkDoneFrame ==
    [][ (last'.op = "mark_done" /\ last'.ok) =>
          /\ next_id' = next_id
          /\ Len(tasks') = Len(tasks)
          /\ \A i \in 1 .. Len(tasks) :
                /\ tasks'[i].id = tasks[i].id
                /\ tasks'[i].title = tasks[i].title
                /\ tasks[i].id # last'.id => tasks'[i].done = tasks[i].done ]_vars

\* C15's case: mark_done has just succeeded on the middle one of three
\* tasks, the first and the last still pending.
C15_Witness ==
    /\ last.op = "mark_done" /\ last.ok
    /\ Len(tasks) = 3
    /\ tasks[2].id = last.id /\ tasks[2].done
    /\ tasks[1].id # last.id /\ ~tasks[1].done
    /\ tasks[3].id # last.id /\ ~tasks[3].done

\* C16: the ids in tasks are strictly increasing from the first entry to the
\* last.
C16_IdsIncreasing ==
    \A i \in 1 .. Len(tasks) - 1 : tasks[i].id < tasks[i + 1].id

\* C17: every id present in tasks lies in 1 .. next_id - 1; so get(0),
\* mark_done(0) and delete(0) report not found.
C17_IdsInRange ==
    /\ \A i \in 1 .. Len(tasks) : tasks[i].id \in 1 .. next_id - 1
    /\ (last.op \in {"get", "delete"} /\ last.id = 0) => last.opt = None
    /\ (last.op = "mark_done" /\ last.id = 0) => ~last.ok

\* C18: after every call that returns, next_id is 1 plus the number of
\* create calls made so far and the length of tasks is the number of create
\* calls minus the number of delete calls that returned a task; a delete that
\* finds its id shrinks tasks by exactly one entry.
C18_Counts ==
    [][ ~panicked' =>
          /\ next_id' = 1 + ncreate'
          /\ Len(tasks') = ncreate' - ndelete'
          /\ (last'.op = "delete" /\ last'.opt # None) =>
                Len(tasks') = Len(tasks) - 1 ]_vars

=============================================================================
